---------------------------- MODULE Spec2Model ----------------------------
(***************************************************************************)
(* StreamDiffusion Spout service: the command listener (osc_server.py),   *)
(* the generation worker (diffusion_engine.py), the two frame ports       *)
(* (spout_handler.py), the shared control state (config.py) and the       *)
(* supervisor (main.py), as three concurrent processes that communicate   *)
(* through the control state only.                                        *)
(*                                                                         *)
(* Every access to a threading.Event or to the queue is one atomic step;  *)
(* the steps of the three threads interleave freely.  External calls      *)
(* (SpoutGL, the StreamDiffusion pipeline, the OSC server's               *)
(* handle_request) are nondeterministic over the outcomes the callers     *)
(* handle or let escape: a normal return, or an exception.                *)
(*                                                                         *)
(* Strings are sequences of tokens, so that concatenation is \o and two   *)
(* different pairs of strings can concatenate to the same string.         *)
(*                                                                         *)
(* Spec is the three threads together.  Three parts of the program that   *)
(* share no state with the rest are also run on their own, over larger    *)
(* inputs: the verbosity handlers (SpecVerbose), the prompt update and    *)
(* its cache (SpecCache) and the inbound port (SpecPort).                 *)
(***************************************************************************)
EXTENDS Integers, Sequences, FiniteSets, TLC

\* ------------------------------------------------------------------ bounds

\* Commands the listener handles in one run.
MaxCmds == 3

\* Calls of update_prompt_without_reset whose encoding is applied, and the
\* distinct numbered prompts they draw from, when the update is run on its own.
MaxUpdates == 12
MaxKeys == 12

\* Verbosity commands the listener handles in one run.
MaxVerboseCmds == 5

\* Calls of SpoutReceiver.receive_frame in one run of the inbound port alone.
MaxReceives == 3

\* ------------------------------------------------------- program constants

\* diffusion_engine.py:117  if len(prompt_cache) > 10
CacheLimit == 10

\* config.py:27-28, the default prompt pair
DefaultPrompt == <<"abstract shape">>
DefaultNegativePrompt == <<"low quality, bad quality, blurry, low resolution">>

\* diffusion_engine.py:95  f"{new_prompt}||{new_negative_prompt}"
Separator == <<"||">>

\* config.py:15  DEFAULT_VERBOSE = 1
DEFAULT_VERBOSE == 1

\* OSC argument values: a string or an integer (str() is applied to both).
StrArg(s) == [kind |-> "str", n |-> 0, s |-> s]
IntArg(n) == [kind |-> "int", n |-> n, s |-> <<>>]

\* The argument lists of a prompt command: none, prompt, prompt and negative.
PromptArgLists ==
    {<<>>, <<StrArg(<<"a">>)>>, <<IntArg(7), StrArg(<<"b">>)>>}

\* str(x) of osc_server.py:19 and :25: a string is itself, an integer its digits.
Str(x) == IF x.kind = "int" THEN <<ToString(x.n)>> ELSE x.s

VARIABLES
    \* config.py: the shared control state
    trigger_event, start_event, stop_event, spout_send_event,
    spout_restart_event, exit_flag,
    prompt_queue, unfinished_tasks,
    current_prompt, current_negative_prompt,
    \* the position of each thread
    lpc, wpc, spc,
    \* diffusion_engine.py: the worker's own state
    prompt_cache, prompt_embeds, stock_noise, item, it,
    \* spout_handler.py: the lifecycle of each port
    receiver, sender,
    \* history, for the claims:
    \*   nCmds      commands handled so far
    \*   putLog     the prompt commands handled: arguments and pair put
    \*   nGot       pairs the worker has taken from the queue
    \*   trig       the fate of a single trigger request: "pending" once a
    \*              trigger command is handled with trigger_event and
    \*              start_event clear, "received" at the receive attempt made
    \*              on its account, "consumed" at the clear that follows;
    \*              "lost" if cleared before any receive, "twice" at a second
    \*              receive; "void" when another trigger or a start command
    \*              arrives while it is outstanding
    \*   stopTrack  "armed" once a stop command is handled with start_event
    \*              set, "inIter" during the first iteration that begins
    \*              afterwards; back to "idle" at that iteration's end or at
    \*              a later start or stop command
    \*   insLog     the cache keys inserted so far, oldest first
    \*   last       the pair last handed to stream.prepare or to
    \*              update_prompt_without_reset, and whether its encoding was
    \*              applied to the model
    nCmds, putLog, nGot, trig, stopTrack, insLog, last,
    \* config.py:35  verbose; vcmd: the verbosity command handled last, the
    \* level before it, and the run of toggles it ends
    verbose, vcmd,
    \* spout_handler.py: SpoutReceiver.width, .height, len(.buffer) (0: None),
    \* the value receive_frame returned last and the calls made so far
    rxWidth, rxHeight, rxBuffer, rxRet, rxCalls,
    \* SpoutGL: the size the producer advertises (<<0, 0>>: no producer) and
    \* the sender size the receiver object holds (getSenderWidth/Height)
    advSize, libSize,
    \* history, for the claims on the order of commands:
    \*   lastRun     the later of the start and stop commands handled so
    \*               far: "start", "stop", or "none"
    \*   lastOutput  the later of the output commands handled so far:
    \*               "on", "off", or "none"
    \* ("untracked" throughout a behaviour that does not record them)
    lastRun, lastOutput

ctl == <<trigger_event, start_event, stop_event, spout_send_event,
         spout_restart_event, exit_flag>>
prompts == <<prompt_queue, unfinished_tasks, current_prompt,
             current_negative_prompt, putLog>>
model == <<prompt_cache, prompt_embeds, stock_noise, insLog, last>>
ports == <<receiver, sender>>
hist == <<nCmds, nGot, trig, stopTrack>>
verb == <<verbose, vcmd>>
rx == <<rxWidth, rxHeight, rxBuffer, rxRet, rxCalls, advSize, libSize>>
order == <<lastRun, lastOutput>>
side == <<verb, rx, order>>
vars == <<ctl, prompts, lpc, wpc, spc, model, item, it, ports, hist, side>>

\* The worker's record of the current loop iteration; reset at line 220.
\* frame_count counts the frames of this iteration only.
NewIteration(trigSet, startSet) ==
    [trigAtStart |-> trigSet, startAtStart |-> startSet, got |-> 0,
     stopObs |-> FALSE, restartObs |-> FALSE, rstR |-> 0, rstS |-> 0,
     enc |-> "none",
     cause |-> "none", recv |-> 0, image |-> "unset", frame_count |-> 0,
     sendObs |-> FALSE, infer |-> 0, send |-> 0, fault |-> "none"]

\* The verbosity command handled last: none yet.
NoCommand == [name |-> "none", args |-> <<>>, before |-> 0, run |-> 0, from |-> 0]

\* No pair handed to the pipeline yet.
NoPair == [pair |-> <<>>, via |-> "none", ok |-> TRUE]

\* config.py:18-28 and the threads before main.py:136.
InitControl ==
    /\ trigger_event = FALSE /\ start_event = FALSE /\ stop_event = FALSE
    /\ spout_send_event = FALSE /\ spout_restart_event = FALSE
    /\ exit_flag = FALSE
    /\ prompt_queue = <<>> /\ unfinished_tasks = 0
    /\ current_prompt = DefaultPrompt
    /\ current_negative_prompt = DefaultNegativePrompt
    /\ lpc = "unstarted" /\ wpc = "unstarted" /\ spc = "start_osc"
    /\ prompt_cache = <<>> /\ prompt_embeds = <<>> /\ stock_noise = 0
    /\ item = <<>> /\ it = NewIteration(FALSE, FALSE)
    /\ receiver = "none" /\ sender = "none"
    /\ nCmds = 0 /\ putLog = <<>> /\ nGot = 0
    /\ trig = "idle" /\ stopTrack = "idle"
    /\ insLog = <<>> /\ last = NoPair

\* receive_frame not called yet.  A return value: kind "frame" (an image of
\* `size`) or "none"; with it, for the claims: whether the producer's size
\* had changed since the call before, the size it advertised during the
\* call, and whether receiveImage was called a second time.
NoReturn == [kind |-> "unset", size |-> <<0, 0>>, changed |-> FALSE,
             adv |-> <<0, 0>>, retried |-> FALSE]

\* No SpoutReceiver constructed yet (diffusion_engine.py:190 makes it).
NoPort ==
    /\ rxWidth = 0 /\ rxHeight = 0 /\ rxBuffer = 0
    /\ rxRet = NoReturn /\ rxCalls = 0
    /\ advSize = <<0, 0>> /\ libSize = <<0, 0>>

\* The order of the commands is not recorded.
NoOrder == lastRun = "untracked" /\ lastOutput = "untracked"

\* A history variable's next value when a command is handled: recorded only
\* in the behaviours that start with the record switched on (InitOrder).
Recorded(old, new) == IF old = "untracked" THEN old ELSE new

Init ==
    /\ InitControl
    /\ verbose = DEFAULT_VERBOSE /\ vcmd = NoCommand
    /\ NoPort
    /\ NoOrder

\* ------------------------------------------------------------- supervisor
\* main.py:126-154.  KeyboardInterrupt may arrive anywhere in the try block.

\* main.py:136  osc_thread.start(); start_osc_server runs to its loop (168-192)
M_StartOsc ==
    /\ spc = "start_osc"
    /\ spc' = "start_sd" /\ lpc' = "loop"
    /\ UNCHANGED <<side, ctl, prompts, wpc, model, item, it, ports, hist>>

\* main.py:137  sd_thread.start()
M_StartSd ==
    /\ spc = "start_sd"
    /\ spc' = "sleep" /\ wpc' = "setup"
    /\ UNCHANGED <<side, ctl, prompts, lpc, model, item, it, ports, hist>>

\* main.py:143-146  except KeyboardInterrupt: config.exit_flag.set()
M_Interrupt ==
    /\ spc \in {"start_osc", "start_sd", "sleep"}
    /\ exit_flag' = TRUE /\ spc' = "join_osc"
    /\ UNCHANGED <<side, trigger_event, start_event, stop_event, spout_send_event,
                   spout_restart_event, prompts, lpc, wpc, model, item, it,
                   ports, hist>>

\* main.py:149  osc_thread.join(): RuntimeError on a thread never started,
\* returns once the listener's function has ended.
M_JoinOsc ==
    /\ spc = "join_osc"
    /\ lpc \in {"unstarted", "done", "broken"}
    /\ spc' = IF lpc = "unstarted" THEN "crashed" ELSE "join_sd"
    /\ UNCHANGED <<side, ctl, prompts, lpc, wpc, model, item, it, ports, hist>>

\* main.py:150-154  sd_thread.join(); exit()
M_JoinSd ==
    /\ spc = "join_sd"
    /\ wpc \in {"unstarted", "done", "dead"}
    /\ spc' = IF wpc = "unstarted" THEN "crashed" ELSE "exited"
    /\ UNCHANGED <<side, ctl, prompts, lpc, wpc, model, item, it, ports, hist>>

Supervisor == M_StartOsc \/ M_StartSd \/ M_Interrupt \/ M_JoinOsc \/ M_JoinSd

\* --------------------------------------------------------------- listener
\* osc_server.py:194-203, the receive loop, and the handlers it dispatches to.

\* osc_server.py:195  while not config.exit_flag.is_set()
L_CheckExit ==
    /\ lpc = "loop"
    /\ lpc' = IF exit_flag THEN "done" ELSE "handle"
    /\ UNCHANGED <<side, ctl, prompts, wpc, spc, model, item, it, ports, hist>>

\* osc_server.py:198-200  socket.timeout, or a datagram no handler is mapped to
L_Timeout ==
    /\ lpc = "handle"
    /\ lpc' = "loop"
    /\ UNCHANGED <<side, ctl, prompts, wpc, spc, model, item, it, ports, hist>>

\* Where the listener goes when handle_request raises another Exception.
\* osc_server.py:201-203  print(...); break
AfterListenerError == "broken"

\* A listener that asks for shutdown when it gives up.
L_ErrorShutsDown ==
    /\ lpc = "handle"
    /\ lpc' = AfterListenerError
    /\ exit_flag' = TRUE
    /\ UNCHANGED <<side, trigger_event, start_event, stop_event,
                   spout_send_event, spout_restart_event, prompts, wpc, spc,
                   model, item, it, ports, hist>>

\* osc_server.py:201-203  except Exception as e: print(...); break
L_Error ==
    /\ lpc = "handle"
    /\ lpc' = AfterListenerError
    /\ UNCHANGED <<side, ctl, prompts, wpc, spc, model, item, it, ports, hist>>

\* handle_request dispatches one datagram to its handler and returns.
Dispatched ==
    /\ lpc = "handle" /\ nCmds < MaxCmds
    /\ lpc' = "loop" /\ nCmds' = nCmds + 1

\* osc_server.py:18-25: the prompt pair after a prompt command with `args`.
PromptAfter(args, cur) == IF Len(args) >= 1 THEN Str(args[1]) ELSE cur
NegativeAfter(args, cur) == IF Len(args) >= 2 THEN Str(args[2]) ELSE cur

\* A put that jumps the queue.
PutFirst(q, p, n) == <<<<p, n>>>> \o q

\* osc_server.py:30  config.prompt_queue.put((current_prompt, current_negative_prompt))
Put(q, p, n) == Append(q, <<p, n>>)

\* osc_server.py:10-30.  One step: the worker reads current_prompt only in
\* stream.prepare, before its loop, and takes the pair from the queue.
process_set_prompt(args) ==
    /\ Dispatched
    /\ current_prompt' = PromptAfter(args, current_prompt)
    /\ current_negative_prompt' = NegativeAfter(args, current_negative_prompt)
    /\ prompt_queue' = Put(prompt_queue, current_prompt', current_negative_prompt')
    /\ unfinished_tasks' = unfinished_tasks + 1
    /\ putLog' = Append(putLog, [args |-> args,
                                 pair |-> <<current_prompt', current_negative_prompt'>>])
    /\ UNCHANGED <<side, ctl, wpc, spc, model, item, it, ports, nGot, trig, stopTrack>>

L_Prompt == \E args \in PromptArgLists : process_set_prompt(args)

\* osc_server.py:32-42
process_trigger ==
    /\ Dispatched
    /\ trigger_event' = TRUE
    /\ trig' = IF ~trigger_event /\ ~start_event THEN "pending" ELSE "void"
    /\ UNCHANGED <<side, start_event, stop_event, spout_send_event,
                   spout_restart_event, exit_flag, prompts, wpc, spc, model,
                   item, it, ports, nGot, stopTrack>>

\* osc_server.py:44-55
process_continuous_start ==
    /\ Dispatched
    /\ start_event' = TRUE
    /\ trig' = IF trig \in {"pending", "received"} THEN "void" ELSE trig
    /\ stopTrack' = "idle"
    /\ lastRun' = Recorded(lastRun, "start")
    /\ UNCHANGED <<verb, rx, lastOutput, trigger_event, stop_event, spout_send_event,
                   spout_restart_event, exit_flag, prompts, wpc, spc, model,
                   item, it, ports, nGot>>

\* osc_server.py:57-68
process_continuous_stop ==
    /\ Dispatched
    /\ stop_event' = TRUE
    /\ stopTrack' = IF start_event THEN "armed" ELSE "idle"
    /\ lastRun' = Recorded(lastRun, "stop")
    /\ UNCHANGED <<verb, rx, lastOutput, trigger_event, start_event, spout_send_event,
                   spout_restart_event, exit_flag, prompts, wpc, spc, model,
                   item, it, ports, nGot, trig>>

\* osc_server.py:70-81
process_spout_start ==
    /\ Dispatched
    /\ spout_send_event' = TRUE
    /\ lastOutput' = Recorded(lastOutput, "on")
    /\ UNCHANGED <<verb, rx, lastRun, trigger_event, start_event, stop_event,
                   spout_restart_event, exit_flag, prompts, wpc, spc, model,
                   item, it, ports, nGot, trig, stopTrack>>

\* osc_server.py:83-94
process_spout_stop ==
    /\ Dispatched
    /\ spout_send_event' = FALSE
    /\ lastOutput' = Recorded(lastOutput, "off")
    /\ UNCHANGED <<verb, rx, lastRun, trigger_event, start_event, stop_event,
                   spout_restart_event, exit_flag, prompts, wpc, spc, model,
                   item, it, ports, nGot, trig, stopTrack>>

\* osc_server.py:147-157
process_spout_restart ==
    /\ Dispatched
    /\ spout_restart_event' = TRUE
    /\ UNCHANGED <<side, trigger_event, start_event, stop_event, spout_send_event,
                   exit_flag, prompts, wpc, spc, model, item, it, ports,
                   nGot, trig, stopTrack>>

Listener ==
    \/ L_CheckExit \/ L_Timeout \/ L_Error \/ L_Prompt
    \/ process_trigger \/ process_continuous_start \/ process_continuous_stop
    \/ process_spout_start \/ process_spout_stop \/ process_spout_restart

\* ----------------------------------------------------------------- worker
\* diffusion_engine.py:141-290, start_diffusion_thread.

\* diffusion_engine.py:164-186  setup_stream_diffusion; stream.prepare with the
\* prompt pair as it stands now.
W_Setup ==
    /\ wpc = "setup"
    /\ prompt_embeds' = current_prompt
    /\ last' = [pair |-> <<current_prompt, current_negative_prompt>>,
                via |-> "prepare", ok |-> TRUE]
    /\ wpc' = "openPorts"
    /\ UNCHANGED <<side, ctl, prompts, lpc, spc, prompt_cache, stock_noise,
                   insLog, item, it, ports, hist>>

\* A startup that opens the inbound port only.
W_OpenReceiverOnly ==
    /\ wpc = "openPorts"
    /\ receiver' = "open" /\ sender' = sender
    /\ wpc' = "warmup"
    /\ UNCHANGED <<side, ctl, prompts, lpc, spc, model, item, it, hist>>

\* diffusion_engine.py:189-191  SpoutReceiver(...); SpoutSender(...)
W_OpenPorts ==
    /\ wpc = "openPorts"
    /\ receiver' = "open" /\ sender' = "open"
    /\ wpc' = "warmup"
    /\ UNCHANGED <<side, ctl, prompts, lpc, spc, model, item, it, hist>>

\* diffusion_engine.py:193-215  the warmup passes on the black image
W_Warmup ==
    /\ wpc = "warmup"
    /\ wpc' = "enable"
    /\ UNCHANGED <<side, ctl, prompts, lpc, spc, model, item, it, ports, hist>>

\* diffusion_engine.py:217-218  config.spout_send_event.set()
W_EnableSend ==
    /\ wpc = "enable"
    /\ spout_send_event' = TRUE
    /\ wpc' = "loop"
    /\ UNCHANGED <<side, trigger_event, start_event, stop_event, spout_restart_event,
                   exit_flag, prompts, lpc, spc, model, item, it, ports, hist>>

\* diffusion_engine.py:220  while not config.exit_flag.is_set()
W_Loop ==
    /\ wpc = "loop"
    /\ wpc' = IF exit_flag THEN "cleanup" ELSE "restartChk"
    /\ it' = NewIteration(trigger_event, start_event)
    /\ stopTrack' = IF ~exit_flag /\ stopTrack = "armed" THEN "inIter"
                    ELSE stopTrack
    /\ UNCHANGED <<side, ctl, prompts, lpc, spc, model, item, ports, nCmds, nGot,
                   trig>>

\* diffusion_engine.py:222  if config.spout_restart_event.is_set()
W_RestartChk ==
    /\ wpc = "restartChk"
    /\ it' = [it EXCEPT !.restartObs = spout_restart_event]
    /\ wpc' = IF spout_restart_event THEN "restartDo" ELSE "promptGet"
    /\ UNCHANGED <<side, ctl, prompts, lpc, spc, model, item, ports, hist>>

\* The outcomes of a port's restart(): done, done but the name was not set
\* (spout_handler.py:84-95 returns False), or an exception of SpoutGL.
RestartOutcomes == {"ok", "false", "raise"}

\* diffusion_engine.py:226-228  receiver.restart(); sender.restart(): how many
\* times the sender's restart() is called, given the receiver's outcome.
SenderRestartCalls(rOut) == IF rOut = "raise" THEN 0 ELSE 1

\* diffusion_engine.py:226-228, 234
W_RestartDo ==
    /\ wpc = "restartDo"
    /\ \E rOut \in RestartOutcomes :
          it' = [it EXCEPT !.rstR = @ + 1, !.rstS = @ + SenderRestartCalls(rOut)]
    /\ wpc' = "restartClr"
    /\ UNCHANGED <<side, ctl, prompts, lpc, spc, model, item, ports, hist>>

\* diffusion_engine.py:229 and 237  config.spout_restart_event.clear()
W_RestartClr ==
    /\ wpc = "restartClr"
    /\ spout_restart_event' = FALSE
    /\ wpc' = "promptGet"
    /\ UNCHANGED <<side, trigger_event, start_event, stop_event, spout_send_event,
                   exit_flag, prompts, lpc, spc, model, item, it, ports, hist>>

\* A get that takes the pair put last.
W_PromptGetNewest ==
    /\ wpc = "promptGet"
    /\ IF prompt_queue = <<>>
       THEN /\ wpc' = "stopChk"
            /\ UNCHANGED <<prompt_queue, item, nGot, it>>
       ELSE /\ item' = prompt_queue[Len(prompt_queue)]
            /\ prompt_queue' = SubSeq(prompt_queue, 1, Len(prompt_queue) - 1)
            /\ nGot' = nGot + 1
            /\ it' = [it EXCEPT !.got = @ + 1]
            /\ wpc' = "promptApply"
    /\ UNCHANGED <<side, ctl, unfinished_tasks, current_prompt,
                   current_negative_prompt, putLog, lpc, spc, model, ports,
                   nCmds, trig, stopTrack>>

\* diffusion_engine.py:241 and 250-251  config.prompt_queue.get_nowait();
\* queue.Empty is passed over.
W_PromptGet ==
    /\ wpc = "promptGet"
    /\ IF prompt_queue = <<>>
       THEN /\ wpc' = "stopChk"
            /\ UNCHANGED <<prompt_queue, item, nGot, it>>
       ELSE /\ item' = Head(prompt_queue)
            /\ prompt_queue' = Tail(prompt_queue)
            /\ nGot' = nGot + 1
            /\ it' = [it EXCEPT !.got = @ + 1]
            /\ wpc' = "promptApply"
    /\ UNCHANGED <<side, ctl, unfinished_tasks, current_prompt,
                   current_negative_prompt, putLog, lpc, spc, model, ports,
                   nCmds, trig, stopTrack>>

\* diffusion_engine.py:95  the cache key of a prompt pair
CacheKey(p, n) == p \o Separator \o n

\* stream.pipe.encode_prompt(prompt, negative_prompt): the embeddings of the two
\* texts, each identified with the text it encodes.
EncodePrompt(p, n) == <<p, n>>

CacheKeys(cache) == {cache[i].key : i \in 1..Len(cache)}
CacheGet(cache, k) ==
    (CHOOSE i \in 1..Len(cache) : cache[i].key = k) 
CacheValue(cache, k) == cache[CacheGet(cache, k)].value

\* An insert that gives up the new entry when the cache is full.
CacheInsertEvictsNewest(cache, k, v) ==
    IF Len(cache) >= CacheLimit THEN cache
    ELSE Append(cache, [key |-> k, value |-> v])

\* diffusion_engine.py:114-119  insert, then drop the oldest-inserted entry
\* when more than CacheLimit entries are held.
CacheInsert(cache, k, v) ==
    LET c == Append(cache, [key |-> k, value |-> v])
    IN  IF Len(c) > CacheLimit THEN Tail(c) ELSE c

\* The noise rescaled before the encoder is called.
NoiseScaledBeforeEncode(noise) == noise + 1

\* diffusion_engine.py:106-137 when encode_prompt raises: the statements after
\* it are skipped, so the noise is as it was.
NoiseAfterFailedEncode(noise) == noise

\* An update that calls the encoder whether or not the key is cached.
UpdateEncodesAlways(cache, embeds, noise, p, n, encOk) ==
    LET k == CacheKey(p, n) IN
    IF encOk
    THEN [cache |-> IF k \in CacheKeys(cache) THEN cache
                    ELSE CacheInsert(cache, k, EncodePrompt(p, n)),
          embeds |-> EncodePrompt(p, n)[1],
          noise |-> noise + 1, enc |-> "ok"]
    ELSE [cache |-> cache, embeds |-> embeds,
          noise |-> NoiseAfterFailedEncode(noise), enc |-> "raise"]

\* diffusion_engine.py:80-137  update_prompt_without_reset.  encOk: whether
\* encode_prompt returns (it is called on a cache miss only).
update_prompt_without_reset(cache, embeds, noise, p, n, encOk) ==
    LET k == CacheKey(p, n) IN
    IF k \in CacheKeys(cache)
    THEN [cache |-> cache, embeds |-> CacheValue(cache, k)[1],
          noise |-> noise + 1, enc |-> "hit"]
    ELSE IF encOk
    THEN [cache |-> CacheInsert(cache, k, EncodePrompt(p, n)),
          embeds |-> EncodePrompt(p, n)[1],
          noise |-> noise + 1, enc |-> "ok"]
    ELSE [cache |-> cache, embeds |-> embeds,
          noise |-> NoiseAfterFailedEncode(noise), enc |-> "raise"]

\* diffusion_engine.py:249 and 253-256  task_done() after the update; after an
\* exception, task_done() only if the queue is not empty.
\* queue.Queue.task_done raises ValueError when nothing is unfinished.
TaskDoneCalled(enc, q) == enc # "raise" \/ q # <<>>

\* diffusion_engine.py:247  one call of update_prompt_without_reset on the
\* worker's model, with the histories of the cache and of the pairs applied.
Update(p, n, encOk) ==
    LET r == update_prompt_without_reset(prompt_cache, prompt_embeds,
                 stock_noise, p, n, encOk)
    IN  /\ prompt_cache' = r.cache
        /\ prompt_embeds' = r.embeds
        /\ stock_noise' = r.noise
        /\ it' = [it EXCEPT !.enc = r.enc]
        /\ insLog' = IF r.enc = "ok" THEN Append(insLog, CacheKey(p, n))
                     ELSE insLog
        /\ last' = [pair |-> <<p, n>>, via |-> "update", ok |-> r.enc # "raise"]

\* diffusion_engine.py:247-256
W_PromptApply ==
    /\ wpc = "promptApply"
    /\ \E encOk \in BOOLEAN :
              /\ Update(item[1], item[2], encOk)
              /\ IF TaskDoneCalled(it'.enc, prompt_queue)
                 THEN IF unfinished_tasks > 0
                      THEN /\ unfinished_tasks' = unfinished_tasks - 1
                           /\ wpc' = "stopChk"
                      ELSE /\ UNCHANGED unfinished_tasks
                           /\ wpc' = "dead"
                 ELSE /\ UNCHANGED unfinished_tasks
                      /\ wpc' = "stopChk"
    /\ item' = <<>>
    /\ UNCHANGED <<side, ctl, prompt_queue, current_prompt, current_negative_prompt,
                   putLog, lpc, spc, ports, hist>>

\* diffusion_engine.py:258  if config.stop_event.is_set()
W_StopChk ==
    /\ wpc = "stopChk"
    /\ it' = [it EXCEPT !.stopObs = stop_event]
    /\ wpc' = IF stop_event THEN "stopClr" ELSE "trigChk"
    /\ UNCHANGED <<side, ctl, prompts, lpc, spc, model, item, ports, hist>>

\* diffusion_engine.py:259  config.stop_event.clear()
W_StopClr ==
    /\ wpc = "stopClr"
    /\ stop_event' = FALSE
    /\ wpc' = "startClr"
    /\ UNCHANGED <<side, trigger_event, start_event, spout_send_event,
                   spout_restart_event, exit_flag, prompts, lpc, spc, model,
                   item, it, ports, hist>>

\* Line 260 left out.
StartKeptAfterStop(s) == s

\* diffusion_engine.py:260  config.start_event.clear(): start_event after it
StartAfterStop(s) == FALSE

W_StartClr ==
    /\ wpc = "startClr"
    /\ start_event' = StartAfterStop(start_event)
    /\ wpc' = "trigChk"
    /\ UNCHANGED <<side, trigger_event, stop_event, spout_send_event,
                   spout_restart_event, exit_flag, prompts, lpc, spc, model,
                   item, it, ports, hist>>

\* diffusion_engine.py:263  config.trigger_event.is_set() or ...
W_TrigChk ==
    /\ wpc = "trigChk"
    /\ IF trigger_event
       THEN /\ it' = [it EXCEPT !.cause = "trigger"]
            /\ wpc' = "recv"
       ELSE /\ UNCHANGED it
            /\ wpc' = "startChk"
    /\ UNCHANGED <<side, ctl, prompts, lpc, spc, model, item, ports, hist>>

\* Line 283 moved out of the if block: the clear made unconditional.
ClearAfterIdleCheck == "trigClr"

\* Where the worker goes when neither event is set at line 263: past the
\* whole block, line 283 included, to the loop's head.
AfterIdleCheck == "loop"

\* diffusion_engine.py:263  ... or config.start_event.is_set()
W_StartChk ==
    /\ wpc = "startChk"
    /\ IF start_event
       THEN /\ it' = [it EXCEPT !.cause = "continuous"]
            /\ wpc' = "recv"
       ELSE /\ UNCHANGED it
            /\ wpc' = AfterIdleCheck
    /\ stopTrack' = IF wpc' = "loop" /\ stopTrack = "inIter" THEN "idle"
                    ELSE stopTrack
    /\ UNCHANGED <<side, ctl, prompts, lpc, spc, model, item, ports, nCmds, nGot,
                   trig>>

\* The outcomes of receiver.receive_frame(): an image, None, or an exception.
ReceiveOutcomes == {"frame", "none", "raise"}

\* diffusion_engine.py:265-268, 278-280
W_Recv ==
    /\ wpc = "recv"
    /\ \E out \in ReceiveOutcomes :
          /\ it' = [it EXCEPT !.recv = @ + 1, !.image = out,
                              !.frame_count = IF out = "frame" THEN @ + 1 ELSE @,
                              !.fault = IF out = "raise" THEN "recv" ELSE @]
          /\ wpc' = CASE out = "frame" -> "sendChk"
                      [] out = "none" -> "trigClr"
                      [] out = "raise" -> "dead"
    /\ trig' = IF it.cause # "trigger" THEN trig
               ELSE CASE trig = "pending" -> "received"
                      [] trig \in {"received", "consumed"} -> "twice"
                      [] OTHER -> trig
    /\ UNCHANGED <<side, ctl, prompts, lpc, spc, model, item, ports, nCmds, nGot,
                   stopTrack>>

\* Only the send inside the if: the inference run whatever the event says.
AlwaysInfer(enabled) == "infer"

\* diffusion_engine.py:274-276: where the worker goes with a frame in hand,
\* given spout_send_event: both the inference and the send are inside the if.
AfterGate(enabled) == IF enabled THEN "infer" ELSE "trigClr"

\* diffusion_engine.py:274  if config.spout_send_event.is_set()
W_SendChk ==
    /\ wpc = "sendChk"
    /\ it' = [it EXCEPT !.sendObs = spout_send_event]
    /\ wpc' = AfterGate(spout_send_event)
    /\ UNCHANGED <<side, ctl, prompts, lpc, spc, model, item, ports, hist>>

\* diffusion_engine.py:275  stream(stream.preprocess_image(input_image))
W_Infer ==
    /\ wpc = "infer"
    /\ \E ok \in BOOLEAN :
          /\ it' = [it EXCEPT !.infer = @ + 1,
                              !.fault = IF ok THEN @ ELSE "infer"]
          /\ wpc' = IF ok THEN "send" ELSE "dead"
    /\ UNCHANGED <<side, ctl, prompts, lpc, spc, model, item, ports, hist>>

\* diffusion_engine.py:276  sender.send_frame(output_image)
W_Send ==
    /\ wpc = "send"
    /\ \E ok \in BOOLEAN :
          /\ it' = [it EXCEPT !.send = @ + 1,
                              !.fault = IF ok THEN @ ELSE "send"]
          /\ wpc' = IF ok THEN "trigClr" ELSE "dead"
    /\ UNCHANGED <<side, ctl, prompts, lpc, spc, model, item, ports, hist>>

\* Line 283 left out.
TriggerLeftSet(t) == t

\* diffusion_engine.py:283  config.trigger_event.clear(): trigger_event after it
TriggerAfterProcessing(t) == FALSE

\* A line 283 that clears start_event along with trigger_event.
W_TrigClrEndsContinuous ==
    /\ wpc = "trigClr"
    /\ trigger_event' = TriggerAfterProcessing(trigger_event)
    /\ start_event' = FALSE
    /\ wpc' = "loop"
    /\ trig' = IF ~trigger_event \/ trigger_event' THEN trig
               ELSE CASE trig = "pending" -> "lost"
                      [] trig = "received" -> "consumed"
                      [] OTHER -> trig
    /\ stopTrack' = IF stopTrack = "inIter" THEN "idle" ELSE stopTrack
    /\ UNCHANGED <<side, stop_event, spout_send_event,
                   spout_restart_event, exit_flag, prompts, lpc, spc, model,
                   item, it, ports, nCmds, nGot>>

\* diffusion_engine.py:283  config.trigger_event.clear()
W_TrigClr ==
    /\ wpc = "trigClr"
    /\ trigger_event' = TriggerAfterProcessing(trigger_event)
    /\ wpc' = "loop"
    /\ trig' = IF ~trigger_event \/ trigger_event' THEN trig
               ELSE CASE trig = "pending" -> "lost"
                      [] trig = "received" -> "consumed"
                      [] OTHER -> trig
    /\ stopTrack' = IF stopTrack = "inIter" THEN "idle" ELSE stopTrack
    /\ UNCHANGED <<side, start_event, stop_event, spout_send_event,
                   spout_restart_event, exit_flag, prompts, lpc, spc, model,
                   item, it, ports, nCmds, nGot>>

\* diffusion_engine.py:285-287  receiver.close(); sender.close()
W_Cleanup ==
    /\ wpc = "cleanup"
    /\ receiver' = "closed" /\ sender' = "closed"
    /\ wpc' = "done"
    /\ UNCHANGED <<side, ctl, prompts, lpc, spc, model, item, it, hist>>

Worker ==
    \/ W_Setup \/ W_OpenPorts \/ W_Warmup \/ W_EnableSend \/ W_Loop
    \/ W_RestartChk \/ W_RestartDo \/ W_RestartClr
    \/ W_PromptGet \/ W_PromptApply
    \/ W_StopChk \/ W_StopClr \/ W_StartClr
    \/ W_TrigChk \/ W_StartChk \/ W_Recv \/ W_SendChk \/ W_Infer \/ W_Send
    \/ W_TrigClr \/ W_Cleanup

Next == Supervisor \/ Listener \/ Worker

Spec == Init /\ [][Next]_vars

\* ---------------------------------------------------- verbosity commands
\* osc_server.py:96-145.  config.verbose only selects what is printed: no
\* thread branches on it except around a print.  The commands are therefore
\* run with the listener and the supervisor alone, from every level that
\* main.py:86-101 can set.

\* An OSC float argument, in tenths: FloatArg(25) is 2.5.
FloatArg(t) == [kind |-> "float", n |-> t, s |-> <<>>]

\* The argument lists of a /verbose message.
VerboseArgLists ==
    {<<>>, <<IntArg(0)>>, <<IntArg(3)>>, <<IntArg(4)>>, <<IntArg(0 - 1)>>,
     <<FloatArg(25)>>, <<FloatArg(0 - 5)>>, <<FloatArg(39)>>,
     <<StrArg(<<"2">>)>>, <<StrArg(<<"x">>)>>, <<IntArg(1), StrArg(<<"x">>)>>}

\* The strings int() parses, here one digit: "0" .. "9".
IsDigit(s) == Len(s) = 1 /\ \E d \in 0..9 : s[1] = ToString(d)
DigitValue(s) == CHOOSE d \in 0..9 : s[1] = ToString(d)

\* osc_server.py:101  int(args[0]): raises ValueError on a string that is
\* not a number.
IntRaises(x) == x.kind = "str" /\ ~IsDigit(x.s)

\* An int() that rounds a float down.
IntFloor(x) ==
    CASE x.kind = "int" -> x.n
      [] x.kind = "float" -> x.n \div 10
      [] x.kind = "str" -> DigitValue(x.s)

\* osc_server.py:101  int(args[0]): an int is itself, a float is truncated
\* toward zero, a string of digits is parsed.
int(x) ==
    CASE x.kind = "int" -> x.n
      [] x.kind = "float" ->
           IF x.n >= 0 THEN x.n \div 10 ELSE 0 - ((0 - x.n) \div 10)
      [] x.kind = "str" -> DigitValue(x.s)

\* Where the listener is after a handler has raised: BaseServer.handle_request
\* (socketserver) catches the exception of the request handler, reports it
\* with handle_error and returns, so line 197 completes and the loop goes on.
AfterHandlerError == "loop"

\* handle_request dispatches one datagram to a verbosity handler.
DispatchedVerbose ==
    /\ lpc = "handle" /\ nCmds < MaxVerboseCmds
    /\ nCmds' = nCmds + 1

\* osc_server.py:96-112
process_verbose_set(args) ==
    /\ DispatchedVerbose
    /\ IF Len(args) >= 1 /\ IntRaises(args[1])
       THEN /\ verbose' = verbose
            /\ lpc' = AfterHandlerError
       ELSE /\ verbose' = IF Len(args) >= 1 /\ 0 <= int(args[1]) /\ int(args[1]) <= 3
                          THEN int(args[1]) ELSE verbose
            /\ lpc' = "loop"
    /\ vcmd' = [name |-> "set", args |-> args, before |-> verbose,
                run |-> 0, from |-> 0]
    /\ UNCHANGED <<rx, order, ctl, prompts, wpc, spc, model, item, it, ports, nGot,
                   trig, stopTrack>>

L_VerboseSet == \E args \in VerboseArgLists : process_verbose_set(args)

\* A toggle between 0 and 1.
VerboseFlipped(v) == IF v = 0 THEN 1 ELSE 0

\* osc_server.py:117  config.verbose = (config.verbose + 1) % 4
VerboseAfterToggle(v) == (v + 1) % 4

\* osc_server.py:114-123
process_verbose_toggle ==
    /\ DispatchedVerbose
    /\ verbose' = VerboseAfterToggle(verbose)
    /\ lpc' = "loop"
    /\ vcmd' = [name |-> "toggle", args |-> <<>>, before |-> verbose,
                run |-> IF vcmd.name = "toggle" THEN vcmd.run + 1 ELSE 1,
                from |-> IF vcmd.name = "toggle" THEN vcmd.from ELSE verbose]
    /\ UNCHANGED <<rx, order, ctl, prompts, wpc, spc, model, item, it, ports, nGot,
                   trig, stopTrack>>

\* osc_server.py:125-134
process_verbose_on ==
    /\ DispatchedVerbose
    /\ verbose' = 2
    /\ lpc' = "loop"
    /\ vcmd' = [name |-> "on", args |-> <<>>, before |-> verbose,
                run |-> 0, from |-> 0]
    /\ UNCHANGED <<rx, order, ctl, prompts, wpc, spc, model, item, it, ports, nGot,
                   trig, stopTrack>>

\* osc_server.py:136-145
process_verbose_off ==
    /\ DispatchedVerbose
    /\ verbose' = 0
    /\ lpc' = "loop"
    /\ vcmd' = [name |-> "off", args |-> <<>>, before |-> verbose,
                run |-> 0, from |-> 0]
    /\ UNCHANGED <<rx, order, ctl, prompts, wpc, spc, model, item, it, ports, nGot,
                   trig, stopTrack>>

\* main.py:86-101  --verbose with choices 0..3, or --quiet
InitVerbose ==
    /\ InitControl
    /\ verbose \in 0..3 /\ vcmd = NoCommand
    /\ NoPort
    /\ NoOrder

NextVerbose ==
    \/ M_StartOsc \/ M_Interrupt \/ M_JoinOsc
    \/ L_CheckExit \/ L_Timeout \/ L_Error
    \/ L_VerboseSet \/ process_verbose_toggle
    \/ process_verbose_on \/ process_verbose_off

SpecVerbose == InitVerbose /\ [][NextVerbose]_vars

\* -------------------------------------------------------- the inbound port
\* spout_handler.py:10-104, SpoutReceiver, with the producer it receives from.
\* The SpoutGL receiver object keeps the sender size it has connected with
\* and flags a sender that is new or has changed size; what receiveImage,
\* isFrameNew and isBufferEmpty return is up to the producer and SpoutGL.

\* Sizes a producer advertises, as <<width, height>>.
ProducerSizes == {<<2, 2>>, <<2, 3>>, <<3, 2>>}

\* diffusion_engine.py:190  SpoutReceiver(spout_receiver_name, width, height)
InitialSizes == {<<2, 2>>}

\* spout_handler.py:56  buffer_size = self.width * self.height * 4
BufferSize(w, h) == w * h * 4

\* The producer starts, or changes the size it advertises.
P_Resize ==
    /\ \E sz \in ProducerSizes \ {advSize} : advSize' = sz
    /\ UNCHANGED <<rxWidth, rxHeight, rxBuffer, rxRet, rxCalls, libSize, verb, order,
                   ctl, prompts, lpc, wpc, spc, model, item, it, ports, hist>>

\* spout_handler.py:41-71.  result1, result2: what the two receiveImage calls
\* return; frameNew: isFrameNew(); empty: isBufferEmpty(self.buffer).
\* isUpdated() is true when the first receiveImage found a sender whose size
\* is not the one the receiver object held.
receive_frame ==
    /\ rxCalls < MaxReceives
    /\ rxCalls' = rxCalls + 1
    /\ \E result1, frameNew, result2, empty \in BOOLEAN :
          LET present == advSize # <<0, 0>>
              isUpdated == present /\ advSize # libSize
              renew == isUpdated /\ frameNew
              retry == renew /\ result1 /\ present
              result == IF retry THEN result2 ELSE result1 /\ present
          IN  /\ libSize' = IF present THEN advSize ELSE libSize
              /\ rxWidth' = IF renew THEN libSize'[1] ELSE rxWidth
              /\ rxHeight' = IF renew THEN libSize'[2] ELSE rxHeight
              /\ rxBuffer' = IF renew THEN BufferSize(rxWidth', rxHeight')
                             ELSE rxBuffer
              /\ rxRet' = [kind |-> IF rxBuffer' # 0 /\ result /\ ~empty
                                    THEN "frame" ELSE "none",
                           size |-> IF rxBuffer' # 0 /\ result /\ ~empty
                                    THEN <<rxWidth', rxHeight'>> ELSE <<0, 0>>,
                           changed |-> isUpdated /\ libSize # <<0, 0>>,
                           adv |-> advSize,
                           retried |-> retry]
    /\ UNCHANGED <<advSize, verb, order, ctl, prompts, lpc, wpc, spc, model, item, it,
                   ports, hist>>

\* spout_handler.py:73-95  restart(): a new SpoutGL receiver, buffer = None
P_Restart ==
    /\ rxBuffer' = 0 /\ libSize' = <<0, 0>>
    /\ UNCHANGED <<rxWidth, rxHeight, rxRet, rxCalls, advSize, verb, order,
                   ctl,
                   prompts, lpc, wpc, spc, model, item, it, ports, hist>>

\* spout_handler.py:13-39  __init__: the size given, no buffer yet
InitPort ==
    /\ InitControl
    /\ verbose = DEFAULT_VERBOSE /\ vcmd = NoCommand
    /\ \E sz \in InitialSizes : rxWidth = sz[1] /\ rxHeight = sz[2]
    /\ rxBuffer = 0
    /\ rxRet = NoReturn /\ rxCalls = 0
    /\ advSize = <<0, 0>> /\ libSize = <<0, 0>>
    /\ NoOrder

NextPort == P_Resize \/ receive_frame \/ P_Restart

SpecPort == InitPort /\ [][NextPort]_vars

\* ------------------------------------------------ the prompt update alone
\* update_prompt_without_reset called again and again on one model, as the
\* worker's loop does for the pairs it takes from the queue.

Min(a, b) == IF a < b THEN a ELSE b

\* The numbered prompts: str() of the integers 1..MaxKeys, each with the
\* default negative prompt.
NumberedPair(i) == <<Str(IntArg(i)), DefaultNegativePrompt>>

\* ("a", "||b") and ("a||", "b"): two pairs, one f-string at line 95.
SeparatorPairs ==
    {<<<<"a">>, <<"||", "b">>>>, <<<<"a", "||">>, <<"b">>>>}

\* How many numbered prompts have been inserted so far.
Fresh == Cardinality({i \in 1..MaxKeys :
             \E j \in 1..Len(insLog) :
                 insLog[j] = CacheKey(NumberedPair(i)[1], NumberedPair(i)[2])})

\* The pairs of the next call: a numbered prompt used before, the first one
\* not used yet (the prompts are numbered in the order of first insertion),
\* or a pair with the separator in it.
NextPairs ==
    {NumberedPair(i) : i \in 1..Min(MaxKeys, Fresh + 1)} \cup SeparatorPairs

\* diffusion_engine.py:247 (the call) and 80-137 (the function)
CacheStep ==
    /\ stock_noise < MaxUpdates
    /\ \E pair \in NextPairs, encOk \in BOOLEAN : Update(pair[1], pair[2], encOk)
    /\ UNCHANGED <<side, ctl, prompts, lpc, wpc, spc, item, ports, hist>>

SpecCache == Init /\ [][CacheStep]_vars

\* The worker thread is scheduled as long as it has a step to take
\* (diffusion_engine.py:220-283 never waits: get_nowait, is_set, and a
\* time.sleep of 5 ms or 100 ms at most).
FairSpec == Spec /\ WF_vars(Worker)

\* The three threads again, with the order of the start/stop and of the
\* output on/off commands recorded: no command of either kind handled yet.
InitOrder ==
    /\ InitControl
    /\ verbose = DEFAULT_VERBOSE /\ vcmd = NoCommand
    /\ NoPort
    /\ lastRun = "none" /\ lastOutput = "none"

SpecOrder == InitOrder /\ [][Next]_vars

\* ----------------------------------------------------------------- claims

\* The step that ends a loop iteration: control returns to line 220.
EndOfIteration == wpc \in {"trigClr", "startChk"} /\ wpc' = "loop"

\* C1: an iteration that starts with trigger_event set attempts receive_frame
\* exactly once, counts exactly one frame when one is returned and none
\* otherwise (running the inference once on it when spout_send_event was set
\* at line 274), and ends with trigger_event clear.
C1_TriggerConsumedInOneIteration ==
    [][(EndOfIteration /\ it.trigAtStart) =>
         /\ it'.recv = 1
         /\ it'.frame_count = (IF it'.image = "frame" THEN 1 ELSE 0)
         /\ it'.infer = (IF it'.image = "frame" /\ it'.sendObs THEN 1 ELSE 0)
         /\ ~trigger_event']_vars

C1_Witness ==
    /\ wpc = "loop" /\ it.trigAtStart /\ it.recv = 1 /\ it.image = "frame"
    /\ it.frame_count = 1 /\ ~trigger_event

\* C2: a trigger command handled while trigger_event and start_event are clear,
\* with no further trigger or start command while it is outstanding, is never
\* cleared before a receive attempt that started after it ("lost"), and never
\* causes a second receive attempt ("twice").
C2_SingleTriggerOneEffect == trig \notin {"lost", "twice"}

C2_Witness == trig = "consumed" /\ it.recv = 1 /\ ~trigger_event

\* C3: when a stop command was handled while start_event was set, and no
\* start or stop command follows it, the first iteration that begins
\* afterwards ends with start_event and stop_event clear and makes no receive
\* attempt on account of start_event.
C3_StopClearsBothByNextIteration ==
    [][(EndOfIteration /\ stopTrack = "inIter") =>
         /\ ~start_event' /\ ~stop_event'
         /\ it'.cause # "continuous"]_vars

C3_Witness ==
    /\ stopTrack = "inIter" /\ wpc = "trigChk"
    /\ ~start_event /\ ~stop_event

\* C4 as claimed: with a frame received, the inference runs whatever
\* spout_send_event says, and send_frame is called iff it was set.
C4_InferenceRegardlessOfOutput ==
    (wpc = "trigClr" /\ it.image = "frame") =>
        /\ it.infer = 1
        /\ (it.send = 1 <=> it.sendObs)

\* C4, amended: with a frame received, the inference runs iff spout_send_event
\* was set when line 274 read it, and send_frame is called iff the inference
\* returned; with the event clear the frame is counted but neither generated
\* nor sent.
C4_OutputGatesGenerationAndPush ==
    /\ it.infer <= 1 /\ it.send <= it.infer
    /\ it.infer = 1 => (it.sendObs /\ it.image = "frame")
    /\ wpc = "infer" => (it.sendObs /\ it.infer = 0)
    /\ wpc = "send" => (it.infer = 1 /\ it.send = 0)
    /\ (wpc = "trigClr" /\ it.image = "frame") =>
          /\ it.frame_count = 1
          /\ (it.infer = 1 <=> it.sendObs)
          /\ it.send = it.infer

C4_Witness ==
    /\ wpc = "trigClr" /\ it.image = "frame" /\ it.frame_count = 1
    /\ ~it.sendObs /\ it.infer = 0 /\ it.send = 0

\* C5 as claimed: an iteration that saw spout_restart_event set has called
\* restart() exactly once on each port once it is past the restart block.
C5_RestartCalledOnBothPorts ==
    (it.restartObs /\ wpc \notin {"restartChk", "restartDo"}) =>
        (it.rstR = 1 /\ it.rstS = 1)

\* C6 as claimed: when the supervisor's joins have returned, the worker has
\* closed both ports (leaving aside a worker ended by the generation service).
C6_ShutdownClosesPorts ==
    (spc = "exited" /\ it.fault # "infer") =>
        (wpc = "done" /\ receiver = "closed" /\ sender = "closed")

\* C7 as claimed: a failure of handle_request other than a timeout never ends
\* the listener's loop.
C7_ListenerSurvivesErrors == lpc # "broken"

\* C8 as claimed: a failure of receive_frame or send_frame never ends the
\* worker.
C8_PortFailureContained == ~(wpc = "dead" /\ it.fault \in {"recv", "send"})

\* C9: when encode_prompt raises for the dequeued pair, the worker goes on to
\* line 258, the cache, the active embedding and the noise are as before, and
\* the pair is dropped: neither kept in hand nor put back on the queue.
C9_FailedEncodeLeavesModelAlone ==
    [][(wpc = "promptApply" /\ it'.enc = "raise") =>
         /\ wpc' = "stopChk"
         /\ prompt_cache' = prompt_cache
         /\ prompt_embeds' = prompt_embeds
         /\ stock_noise' = stock_noise
         /\ prompt_queue' = prompt_queue
         /\ item' = <<>>]_vars

C9_Witness ==
    /\ wpc = "stopChk" /\ it.enc = "raise" /\ item = <<>>
    /\ prompt_cache = <<>> /\ stock_noise = 0

\* The pairs the prompt commands have put and the worker has not yet taken.
UnconsumedPuts == [i \in 1..(Len(putLog) - nGot) |-> putLog[nGot + i].pair]

\* C10: a prompt command sets current_prompt to its first argument as text
\* (unchanged when there is none) and current_negative_prompt to its second
\* (unchanged when there is none), and appends exactly the pair of the two as
\* they then stand; the queue always holds the pairs of the commands not yet
\* taken by the worker, in command order.
C10_PromptCommandEnqueuesCurrentPair ==
    /\ [](prompt_queue = UnconsumedPuts)
    /\ [][putLog' # putLog =>
            LET a == putLog'[Len(putLog')].args IN
            /\ Len(putLog') = Len(putLog) + 1
            /\ current_prompt' =
                 (CASE a = <<>> -> current_prompt
                    [] a[1].kind = "str" -> a[1].s
                    [] a[1].kind = "int" -> <<ToString(a[1].n)>>)
            /\ current_negative_prompt' =
                 (IF Len(a) >= 2 THEN a[2].s ELSE current_negative_prompt)
            /\ prompt_queue' =
                 Append(prompt_queue, <<current_prompt', current_negative_prompt'>>)
         ]_vars

C10_Witness ==
    /\ Len(prompt_queue) = 2 /\ nGot = 0
    /\ prompt_queue[1] = <<<<"a">>, DefaultNegativePrompt>>
    /\ prompt_queue[2] = <<<<"7">>, <<"b">>>>

\* C11: a worker iteration takes at most one pair from the queue; with the
\* queue empty the get does not wait and the iteration goes on to the stop
\* check; the k-th pair taken is the pair the k-th prompt command put, and
\* it is handed to the model update exactly once, in the iteration that
\* took it.
C11_OnePairPerIterationInOrder ==
    /\ [](it.got <= 1)
    /\ [](wpc = "promptGet" => ENABLED W_PromptGet)
    /\ [][
          /\ (wpc = "promptGet" /\ wpc' # wpc) =>
                (IF prompt_queue = <<>>
                 THEN wpc' = "stopChk" /\ nGot' = nGot /\ item' = item
                 ELSE /\ nGot' = nGot + 1
                      /\ item' = putLog[nGot'].pair
                      /\ prompt_queue' = Tail(prompt_queue)
                      /\ wpc' = "promptApply")
          /\ (wpc = "promptApply" /\ wpc' # wpc) =>
                (/\ it.got = 1 /\ it.enc = "none" /\ it'.enc # "none"
                 /\ last'.pair = putLog[nGot].pair
                 /\ item' = <<>>)
          /\ (nGot' # nGot \/ it'.enc # it.enc) =>
                wpc \in {"loop", "promptGet", "promptApply"}
       ]_vars

C11_Witness ==
    /\ wpc = "stopChk" /\ nGot = 2 /\ Len(prompt_queue) = 1
    /\ last.via = "update" /\ last.pair = putLog[2].pair
    /\ putLog[1].pair # putLog[2].pair /\ putLog[3].pair # putLog[2].pair

\* No prompt command can arrive any more: the listener has ended or has
\* handled all the commands of this run.
Quiet == lpc \in {"done", "broken"} \/ nCmds = MaxCmds

\* Nothing is left to apply: the queue is empty and no pair is in the
\* worker's hands.
Drained ==
    /\ wpc \notin {"unstarted", "setup"}
    /\ prompt_queue = <<>> /\ item = <<>>

\* C12, for prompt texts whose cache keys are all different (those of
\* PromptArgLists): once no more prompt commands arrive, a worker that keeps
\* iterating drains the queue (unless it ends first: shutdown, or an uncaught
\* exception); and whenever the queue is drained and the last encoding did
\* not fail, the pair last applied to the model is (current_prompt,
\* current_negative_prompt) and the prompt embedding in use is that of
\* current_prompt.
C12_DrainedModelHoldsLastPair ==
    /\ [](Drained /\ last.ok =>
            /\ last.pair = <<current_prompt, current_negative_prompt>>
            /\ prompt_embeds = EncodePrompt(last.pair[1], last.pair[2])[1])
    /\ (Quiet ~> (Drained \/ wpc \in {"unstarted", "dead", "done"}))

C12_Witness ==
    /\ Drained /\ last.ok /\ last.via = "update" /\ nGot = 3
    /\ putLog[1].pair # putLog[3].pair /\ putLog[2].pair # putLog[3].pair
    /\ last.pair = <<current_prompt, current_negative_prompt>>

\* C15: an iteration that begins with trigger_event and start_event both
\* set, sees no stop request, receives a frame and finds spout_send_event
\* set makes one receive_frame call, counts one frame, runs one inference
\* and one send_frame; when it ends (the send having returned) trigger_event
\* is clear and start_event is still set.
C15_BothSignalsOneFrame ==
    [][(/\ EndOfIteration
        /\ it.trigAtStart /\ it.startAtStart /\ ~it.stopObs
        /\ it.image = "frame" /\ it.sendObs) =>
           /\ it.recv = 1 /\ it.frame_count = 1
           /\ it.infer = 1 /\ it.send = 1
           /\ ~trigger_event' /\ start_event'
      ]_vars

C15_Witness ==
    /\ wpc = "loop" /\ it.trigAtStart /\ it.startAtStart /\ ~it.stopObs
    /\ it.cause = "trigger" /\ it.image = "frame" /\ it.sendObs
    /\ it.recv = 1 /\ it.infer = 1 /\ it.send = 1 /\ it.fault = "none"
    /\ ~trigger_event /\ start_event

\* C12, for every prompt text: after an update whose encoding did not fail,
\* the prompt embedding in use is the encoding of the prompt just applied.
C12_AppliedPairIsActive ==
    (last.via = "update" /\ last.ok) =>
        prompt_embeds = EncodePrompt(last.pair[1], last.pair[2])[1]

\* The keys of the cache, oldest entry first.
KeySeq(cache) == [i \in 1..Len(cache) |-> cache[i].key]

\* C13: when the pair of an update is the pair of the update before it, and
\* that one's encoding was applied, the encoder is not called: the update is
\* a cache hit that applies the stored encoding and leaves the cache, its
\* keys and their order as they were, and nothing is inserted.
C13_SecondApplicationIsHit ==
    [][(last.via = "update" /\ last.ok /\ last'.pair = last.pair) =>
          /\ it'.enc = "hit"
          /\ prompt_cache' = prompt_cache
          /\ KeySeq(prompt_cache') = KeySeq(prompt_cache)
          /\ insLog' = insLog
          /\ prompt_embeds' =
                CacheValue(prompt_cache, CacheKey(last.pair[1], last.pair[2]))[1]
      ]_vars

C13_Witness ==
    /\ it.enc = "hit" /\ last.ok /\ last.pair = NumberedPair(1)
    /\ insLog = <<CacheKey(NumberedPair(1)[1], NumberedPair(1)[2])>>
    /\ stock_noise = 2

\* The last n keys inserted, oldest first.
LastInserted(n) ==
    SubSeq(insLog, Len(insLog) - Min(n, Len(insLog)) + 1, Len(insLog))

\* C14: the cache never holds more than 10 entries; its keys are distinct
\* and are the keys of the last 10 insertions, in insertion order; an update
\* that inserts nothing (a hit, a failed encode) leaves the order alone, and
\* an insertion into a cache of 10 drops the entry inserted first.
C14_CacheHoldsLastTenInserted ==
    /\ [](/\ Len(prompt_cache) <= 10
          /\ Cardinality(CacheKeys(prompt_cache)) = Len(prompt_cache)
          /\ KeySeq(prompt_cache) = LastInserted(10))
    /\ [][/\ insLog' = insLog => prompt_cache' = prompt_cache
          /\ (insLog' # insLog /\ Len(prompt_cache) = 10) =>
                KeySeq(prompt_cache') =
                    Append(Tail(KeySeq(prompt_cache)), insLog'[Len(insLog')])
       ]_vars

C14_Witness ==
    /\ Len(insLog) = 12 /\ Len(prompt_cache) = 10
    /\ insLog[12] = insLog[1] /\ prompt_cache[10].key = insLog[1]
    /\ insLog[2] \notin CacheKeys(prompt_cache)

\* C16: a toggle takes the level 0 to 1, 1 to 2, 2 to 3 and 3 to 0; after
\* four toggles in a row the level is what it was before the first; and the
\* level is within 0..3 after any sequence of verbosity commands.
C16_ToggleCyclesThroughFourLevels ==
    /\ [](verbose \in 0..3)
    /\ [](vcmd.name = "toggle" /\ vcmd.run = 4 => verbose = vcmd.from)
    /\ [][(nCmds' # nCmds /\ vcmd'.name = "toggle") =>
            verbose' = (CASE verbose = 0 -> 1 [] verbose = 1 -> 2
                          [] verbose = 2 -> 3 [] verbose = 3 -> 0)
       ]_vars

C16_Witness ==
    /\ vcmd.name = "toggle" /\ vcmd.run = 4 /\ vcmd.from = 2 /\ verbose = 2

\* A /verbose message handled in this step, and its arguments.
SetHandled == nCmds' # nCmds /\ vcmd'.name = "set"

\* C17 as stated: the level is set only for an argument of integer type in
\* 0..3; any other argument leaves it; the rest of the control state is left
\* alone and the listener goes on.
C17_SetOnlyForIntegerInRange ==
    [][SetHandled =>
         LET a == vcmd'.args IN
         /\ verbose' = (IF Len(a) >= 1 /\ a[1].kind = "int" /\ a[1].n \in 0..3
                        THEN a[1].n ELSE verbose)
         /\ UNCHANGED <<ctl, prompts>>
         /\ lpc' = "loop"
      ]_vars

\* C17: the level is set to the argument converted by int() when that lies
\* in 0..3: an integer 0..3, a float above -1 and below 4 (its fraction
\* dropped), the strings "0" to "3".  With no argument, with a converted value
\* outside 0..3, or with a string that is no number, the level is left as it
\* was.  In every case the rest of the control state is left alone and the
\* listener returns to its loop.
C17_SetConvertsThenChecksRange ==
    [][SetHandled =>
         LET a == vcmd'.args IN
         /\ verbose' =
              (CASE a = <<>> -> verbose
                 [] a # <<>> /\ a[1].kind = "int" ->
                      IF a[1].n \in 0..3 THEN a[1].n ELSE verbose
                 [] a # <<>> /\ a[1].kind = "float" ->
                      IF a[1].n > 0 - 10 /\ a[1].n < 40
                      THEN (IF a[1].n < 10 THEN 0 ELSE
                            IF a[1].n < 20 THEN 1 ELSE
                            IF a[1].n < 30 THEN 2 ELSE 3)
                      ELSE verbose
                 [] a # <<>> /\ a[1].kind = "str" ->
                      IF a[1].s = <<"0">> THEN 0 ELSE
                      IF a[1].s = <<"1">> THEN 1 ELSE
                      IF a[1].s = <<"2">> THEN 2 ELSE
                      IF a[1].s = <<"3">> THEN 3 ELSE verbose)
         /\ UNCHANGED <<ctl, prompts>>
         /\ lpc' = "loop"
      ]_vars

C17_Witness ==
    /\ vcmd.name = "set" /\ vcmd.args = <<StrArg(<<"x">>)>>
    /\ vcmd.before = 3 /\ verbose = 3 /\ lpc = "loop" /\ nCmds = 2

\* C18: when the producer's size has changed since the call before, a
\* receive_frame call sets width and height to the size now advertised,
\* allocates a buffer of width*height*4 bytes, calls receiveImage a second
\* time, and returns no frame of another size; and an allocated buffer
\* always has width*height*4 bytes.
C18_ResizeRenegotiatedOnNextReceive ==
    /\ [](rxBuffer # 0 => rxBuffer = rxWidth * rxHeight * 4)
    /\ [][(rxCalls' # rxCalls /\ rxRet'.changed) =>
            /\ <<rxWidth', rxHeight'>> = rxRet'.adv
            /\ rxBuffer' = rxRet'.adv[1] * rxRet'.adv[2] * 4
            /\ rxRet'.retried
            /\ (rxRet'.kind = "frame" => rxRet'.size = rxRet'.adv)
       ]_vars

\* C19: exit_flag changes only in a step of the supervisor, the one that
\* handles KeyboardInterrupt, and only from clear to set; no step of the
\* listener or of the worker changes it, and once set it stays set.
C19_OnlySupervisorSetsShutdown ==
    /\ [][exit_flag' # exit_flag =>
            /\ ~exit_flag /\ exit_flag'
            /\ spc \in {"start_osc", "start_sd", "sleep"} /\ spc' = "join_osc"
            /\ lpc' = lpc /\ wpc' = wpc /\ nCmds' = nCmds
       ]_vars
    /\ [][exit_flag => exit_flag']_vars

C19_Witness ==
    /\ exit_flag /\ spc = "exited" /\ lpc = "done" /\ wpc = "done"
    /\ nCmds = MaxCmds /\ nGot >= 1 /\ trig = "consumed"
    /\ receiver = "closed" /\ sender = "closed"

\* The worker's positions before its loop, and inside it.
StartupPcs == {"setup", "openPorts", "warmup", "enable"}
LoopPcs ==
    {"loop", "restartChk", "restartDo", "restartClr", "promptGet",
     "promptApply", "stopChk", "stopClr", "startClr", "trigChk", "startChk",
     "recv", "sendChk", "infer", "send", "trigClr"}

\* C20 as stated: no port is open until the warmup passes have finished.
C20_PortsOpenedAfterWarmup ==
    wpc \in {"unstarted", "setup", "openPorts", "warmup"} =>
        receiver = "none" /\ sender = "none"

\* C20: the startup runs setup and prepare, then opens both ports, then the
\* warmup passes, then enters the loop: no port is open before the pipeline
\* is prepared, both are open during the warmup and in the loop, and the loop
\* is entered only from the end of the startup.
C20_StartupOpensPortsThenWarmsUp ==
    /\ [](wpc \in {"unstarted", "setup", "openPorts"} =>
            receiver = "none" /\ sender = "none")
    /\ [](wpc \in {"warmup", "enable"} \cup LoopPcs =>
            receiver = "open" /\ sender = "open")
    /\ [][(wpc \in StartupPcs /\ wpc' # wpc) =>
            wpc' = (CASE wpc = "setup" -> "openPorts"
                      [] wpc = "openPorts" -> "warmup"
                      [] wpc = "warmup" -> "enable"
                      [] wpc = "enable" -> "loop")
       ]_vars
    /\ [][(wpc \notin LoopPcs /\ wpc' \in LoopPcs) =>
            wpc = "enable" /\ wpc' = "loop"]_vars

C20_Witness ==
    /\ wpc = "warmup" /\ receiver = "open" /\ sender = "open"
    /\ last.via = "prepare" /\ nCmds = 1

\* C21: an iteration that finds trigger_event clear and then start_event
\* clear at line 263 goes straight back to the loop's head: it has made no
\* receive_frame call, counted no frame, run no inference and no send_frame,
\* and the step that ends it leaves trigger_event, start_event and
\* spout_send_event as they are.
C21_IdleIterationDoesNothing ==
    [][(wpc = "startChk" /\ ~start_event /\ wpc' # wpc) =>
          /\ wpc' = "loop"
          /\ it'.cause = "none" /\ it'.recv = 0 /\ it'.frame_count = 0
          /\ it'.infer = 0 /\ it'.send = 0
          /\ UNCHANGED <<trigger_event, start_event, spout_send_event>>
      ]_vars

C21_Witness ==
    /\ wpc = "loop" /\ it.cause = "none" /\ it.recv = 0 /\ it.stopObs
    /\ it.startAtStart /\ ~start_event /\ trigger_event /\ trig = "pending"

\* C22: start_event is cleared by the worker's line 260 only, in an iteration
\* that saw stop_event set; not by the end of an iteration, whether it got a
\* frame or not and whether it consumed a trigger or not.  While it is set,
\* every iteration that reaches line 263 goes on to a receive_frame call.
C22_ContinuousIsLevel ==
    /\ [][(start_event /\ ~start_event') =>
            wpc = "startClr" /\ wpc' = "trigChk" /\ it.stopObs]_vars
    /\ [][(wpc = "trigChk" /\ wpc' # wpc /\ start_event) =>
            wpc' \in {"recv", "startChk"}]_vars
    /\ [][(wpc = "startChk" /\ wpc' # wpc /\ start_event) =>
            wpc' = "recv"]_vars
    /\ [][(EndOfIteration /\ it.cause # "none" /\ start_event) =>
            start_event' /\ it.recv = 1]_vars

C22_Witness ==
    /\ wpc = "loop" /\ start_event /\ it.startAtStart /\ it.trigAtStart
    /\ it.recv = 1 /\ it.image = "none" /\ ~trigger_event /\ nCmds = MaxCmds

\* C23: after an update that was a cache hit (line 98), the entry found under
\* the requested pair's key holds the encoding computed for that very pair,
\* whatever the two texts contain.
C23_HitReturnsEncodingOfRequestedPair ==
    (last.via = "update" /\ it.enc = "hit") =>
        CacheValue(prompt_cache, CacheKey(last.pair[1], last.pair[2]))
            = EncodePrompt(last.pair[1], last.pair[2])

\* A step in which the worker calls receive_frame, send_frame or restart.
PortOperation ==
    it'.recv > it.recv \/ it'.send > it.send \/ it'.rstR > it.rstR
        \/ it'.rstS > it.rstS

\* C26: the port lifecycle.  receive_frame, send_frame and restart are
\* called only while both ports are open; a port is closed only by the
\* worker's lines 286-287 and stays closed; and whenever the worker thread
\* has finished, by shutdown or by an exception, both ports are closed.
C26_PortLifecycleOnEveryPath ==
    /\ [](wpc \in {"done", "dead"} => receiver = "closed" /\ sender = "closed")
    /\ [][PortOperation => receiver = "open" /\ sender = "open"]_vars
    /\ [][(receiver' = "closed" /\ receiver # "closed") =>
            wpc = "cleanup" /\ receiver = "open"]_vars
    /\ [][(sender' = "closed" /\ sender # "closed") =>
            wpc = "cleanup" /\ sender = "open"]_vars
    /\ [][(receiver = "closed" => receiver' = "closed")
            /\ (sender = "closed" => sender' = "closed")]_vars

\* C24: a start command handled after the most recent stop command is not
\* lost: once the worker is past its two clears of lines 259-260 for that
\* stop (stop_event clear again, the worker not between the two clears),
\* start_event is set.
C24_StartAfterStopNotLost ==
    (lastRun = "start" /\ ~stop_event /\ wpc # "startClr") => start_event

\* C25: spout_send_event goes from set to clear only by the handler of an
\* output-off command; after that command, with no output-on command since,
\* the event is clear and the worker makes no send_frame call.
C25_OutputOffHolds ==
    /\ [][(spout_send_event /\ ~spout_send_event') =>
            lpc = "handle" /\ nCmds' = nCmds + 1 /\ lastOutput' = "off"]_vars
    /\ [](lastOutput = "off" => ~spout_send_event)
    /\ [][lastOutput = "off" => ~(it'.send > it.send)]_vars

=============================================================================
